---- MODULE Spec2Model ----
(***************************************************************************)
(* Blog-Django: the request handlers of blog/views.py and the generic CRUD *)
(* mixins of blog/utils.py, over a store of Post and Tag entities.         *)
(*                                                                         *)
(* Text (titles, bodies, slugs, search terms) is a sequence of one-        *)
(* character strings, so that case folding and substring search are        *)
(* computed and not assumed.  One action is one whole HTTP request: the    *)
(* access gate, the handler and every store write the handler makes.       *)
(*                                                                         *)
(* blog/models.py and blog/forms.py are not among the sources modelled     *)
(* here; the entity fields, the form validation rules and the URL of an    *)
(* entity follow sections 3 and 4.2-4.4 of the specification.              *)
(***************************************************************************)
EXTENDS Integers, Sequences, FiniteSets

VARIABLES
    store,    \* store[kind]: the set of stored entities of that kind
    nextId,   \* nextId[kind]: the primary key the next insert receives
    before,   \* history: the store as it was when the last request arrived
    deleted,  \* history: the slugs a delete removed and no create stored since
    req,      \* the last request
    resp      \* the response to the last request

vars == <<store, nextId, before, deleted, req, resp>>

----------------------------------------------------------------------------
(* Bounds of the model *)

\* inserts into the store, of both kinds together, in the CRUD specification
MaxInserts == 2
\* Posts in the preloaded store of the list specification
MaxPosts == 25

----------------------------------------------------------------------------
(* Text *)

Lower(c) ==
    CASE c = "A" -> "a"
      [] c = "B" -> "b"
      [] OTHER -> c

LowerStr(s) == [i \in 1..Len(s) |-> Lower(s[i])]

\* the slug__iexact lookup: equality after case folding
IExact(a, b) == LowerStr(a) = LowerStr(b)

\* the title__icontains / body__icontains lookup
IContains(hay, needle) ==
    \E i \in 0..(Len(hay) - Len(needle)) :
        SubSeq(LowerStr(hay), i + 1, i + Len(needle)) = LowerStr(needle)

----------------------------------------------------------------------------
(* Entities and the store *)

Kinds == {"Post", "Tag"}

Entity(i, sl, t, b) == [id |-> i, slug |-> sl, title |-> t, body |-> b]

\* Model.objects.filter(slug__iexact=slug)
BySlug(st, kind, slug) == {e \in st[kind] : IExact(e.slug, slug)}

\* the store's default order of a queryset: by primary key
Ordered(S) ==
    LET ids == {e.id : e \in S}
        top == IF ids = {} THEN 0 ELSE CHOOSE m \in ids : \A j \in ids : j <= m
        asc == SelectSeq([i \in 1..top |-> i], LAMBDA i : i \in ids)
    IN  [k \in 1..Len(asc) |-> CHOOSE e \in S : e.id = asc[k]]

----------------------------------------------------------------------------
(* The model forms (PostForm, TagForm) *)

FormData(t, sl, b) == [title |-> t, slug |-> sl, body |-> b]

EmptyData == FormData(<<>>, <<>>, <<>>)

\* a slug is letters only here; the blank is the one character it refuses
WellFormedSlug(sl) == Len(sl) > 0 /\ \A i \in 1..Len(sl) : sl[i] # " "

\* the fields the form of a kind declares: a Tag has no body
CleanedData(kind, data) ==
    IF kind = "Tag" THEN [data EXCEPT !.body = <<>>] ELSE data

\* the fields in error; instance is {} for a create and {obj} for an update
FormErrors(st, kind, data, instance) ==
    {f \in {"title"} : data.title = <<>>}
    \cup {f \in {"slug"} :
            \/ ~WellFormedSlug(data.slug)
            \/ \E e \in st[kind] \ instance : IExact(e.slug, data.slug)}

is_valid(st, kind, data, instance) == FormErrors(st, kind, data, instance) = {}

\* the entity bound_form.save() writes: a new primary key without an
\* instance, the instance's own primary key with one
SavedEntity(kind, data, instance, fresh) ==
    LET d == CleanedData(kind, data)
        i == IF instance = {} THEN fresh ELSE (CHOOSE e \in instance : TRUE).id
    IN  Entity(i, d.slug, d.title, d.body)

\* the form handed to the template: the entered values and the field errors
UnboundForm == [bound |-> FALSE, data |-> EmptyData, errors |-> {}]

InstanceForm(obj) ==
    [bound |-> FALSE, data |-> FormData(obj.title, obj.slug, obj.body), errors |-> {}]

BoundForm(st, kind, data, instance) ==
    [bound |-> TRUE, data |-> data, errors |-> FormErrors(st, kind, data, instance)]

----------------------------------------------------------------------------
(* URLs *)

NoLocation == [page |-> "none", kind |-> "none", slug |-> <<>>]

\* Model.get_absolute_url: the detail page of the entity, by its slug
get_absolute_url(kind, obj) == [page |-> "detail", kind |-> kind, slug |-> obj.slug]

\* reverse('posts_list_url') / reverse('tags_list_url')
reverse(redirect_url) ==
    [page |-> "list",
     kind |-> IF redirect_url = "posts_list_url" THEN "Post" ELSE "Tag",
     slug |-> <<>>]

\* a query string is a sequence of key/value pairs
Pair(k, v) == [key |-> k, value |-> v]

HasKey(q, k) == \E i \in 1..Len(q) : q[i].key = k

\* QueryDict.get(key, default)
QueryGet(q, k, default) ==
    IF HasKey(q, k)
    THEN q[CHOOSE i \in 1..Len(q) : q[i].key = k /\ \A j \in (i+1)..Len(q) : q[j].key # k].value
    ELSE default

\* the value of a page parameter: an integer text or some other text
IntText(n) == [tag |-> "int", n |-> n]
OtherText == [tag |-> "text", n |-> 0]

----------------------------------------------------------------------------
(* The class-based views of views.py *)

ViewNames ==
    {"PostDetail", "PostCreate", "PostUpdate", "PostDelete",
     "TagDetail", "TagCreate", "TagUpdate", "TagDelete"}

\* the mixin a view class inherits its get/post from
Mixin(view) ==
    CASE view \in {"PostDetail", "TagDetail"} -> "ObjectDetailMixin"
      [] view \in {"PostCreate", "TagCreate"} -> "ObjectCreateMixin"
      [] view \in {"PostUpdate", "TagUpdate"} -> "ObjectUpdateMixin"
      [] view \in {"PostDelete", "TagDelete"} -> "ObjectDeleteMixin"

\* the model / model_form attribute of the class
Model(view) ==
    IF view \in {"PostDetail", "PostCreate", "PostUpdate", "PostDelete"}
    THEN "Post" ELSE "Tag"

Template(view) ==
    CASE view = "PostDetail" -> "blog/post_detail.html"
      [] view = "PostCreate" -> "blog/post_create_form.html"
      [] view = "PostUpdate" -> "blog/post_update_form.html"
      [] view = "PostDelete" -> "blog/post_delete_form.html"
      [] view = "TagDetail" -> "blog/tag_detail.html"
      [] view = "TagCreate" -> "blog/tag_create.html"
      [] view = "TagUpdate" -> "blog/tag_update_form.html"
      [] view = "TagDelete" -> "blog/tag_delete_form.html"

RedirectUrl(view) ==
    IF view = "PostDelete" THEN "posts_list_url" ELSE "tags_list_url"

\* mutant: TagDelete declared without LoginRequiredMixin
LoginRequired_TagDeleteOpen(view) ==
    view \in {"PostCreate", "PostUpdate", "PostDelete", "TagCreate", "TagUpdate"}

\* the classes that list LoginRequiredMixin first among their bases
LoginRequired(view) ==
    view \in {"PostCreate", "PostUpdate", "PostDelete",
              "TagCreate", "TagUpdate", "TagDelete"}

----------------------------------------------------------------------------
(* Requests and responses *)

Request(view, method, auth, slug, data, query) ==
    [view |-> view, method |-> method, auth |-> auth, slug |-> slug,
     data |-> data, query |-> query, followed |-> FALSE, linkSearch |-> <<>>]

NoRequest == Request("none", "GET", FALSE, <<>>, EmptyData, <<>>)

NoResponse ==
    [status |-> 0, template |-> "none", obj |-> {}, location |-> NoLocation,
     form |-> UnboundForm, result |-> <<>>, items |-> <<>>, number |-> 0,
     num_pages |-> 0, is_paginated |-> FALSE, prev_url |-> <<>>, next_url |-> <<>>]

\* render(request, template, context)
Render(template, objs, form) ==
    [NoResponse EXCEPT !.status = 200, !.template = template, !.obj = objs,
                       !.form = form]

\* redirect(to)
Redirect(location) == [NoResponse EXCEPT !.status = 302, !.location = location]

\* an exception leaving the handler: Http404, PermissionDenied, or any other
\* one (DoesNotExist, MultipleObjectsReturned), which is a server error
Http404 == [NoResponse EXCEPT !.status = 404]
PermissionDenied == [NoResponse EXCEPT !.status = 403]
ServerError == [NoResponse EXCEPT !.status = 500]

----------------------------------------------------------------------------
(* The generic handlers of utils.py.  Each states the response and the    *)
(* store after the handler has run for request r.                         *)

\* Model.objects.get raises DoesNotExist or MultipleObjectsReturned unless
\* exactly one entity matches
GetRaises(found) == Cardinality(found) # 1

\* mutant: the lookup is slug=slug, not slug__iexact=slug
ObjectDetailMixin_get_Exact(r) ==
    LET found == {e \in store[Model(r.view)] : e.slug = r.slug}
    IN  /\ resp' = IF found = {} THEN Http404
                   ELSE IF GetRaises(found) THEN ServerError
                   ELSE Render(Template(r.view), found, UnboundForm)
        /\ UNCHANGED <<store, nextId>>

ObjectDetailMixin_get(r) ==
    LET found == BySlug(store, Model(r.view), r.slug)
    IN  /\ resp' = IF found = {} THEN Http404
                   ELSE IF GetRaises(found) THEN ServerError
                   ELSE Render(Template(r.view), found, UnboundForm)
        /\ UNCHANGED <<store, nextId>>

ObjectCreateMixin_get(r) ==
    /\ resp' = Render(Template(r.view), {}, UnboundForm)
    /\ UNCHANGED <<store, nextId>>

\* mutant: the form is saved without asking is_valid
ObjectCreateMixin_post_Unchecked(r) ==
    LET kind == Model(r.view)
        new_obj == SavedEntity(kind, r.data, {}, nextId[kind])
    IN  /\ store' = [store EXCEPT ![kind] = @ \cup {new_obj}]
        /\ nextId' = [nextId EXCEPT ![kind] = @ + 1]
        /\ resp' = Redirect(get_absolute_url(kind, new_obj))

\* mutant: a failed submission is answered with a new, empty form
ObjectCreateMixin_post_FreshForm(r) ==
    LET kind == Model(r.view)
        new_obj == SavedEntity(kind, r.data, {}, nextId[kind])
    IN  IF is_valid(store, kind, r.data, {})
        THEN /\ store' = [store EXCEPT ![kind] = @ \cup {new_obj}]
             /\ nextId' = [nextId EXCEPT ![kind] = @ + 1]
             /\ resp' = Redirect(get_absolute_url(kind, new_obj))
        ELSE /\ resp' = Render(Template(r.view), {}, UnboundForm)
             /\ UNCHANGED <<store, nextId>>

ObjectCreateMixin_post(r) ==
    LET kind == Model(r.view)
        new_obj == SavedEntity(kind, r.data, {}, nextId[kind])
    IN  IF is_valid(store, kind, r.data, {})
        THEN /\ store' = [store EXCEPT ![kind] = @ \cup {new_obj}]
             /\ nextId' = [nextId EXCEPT ![kind] = @ + 1]
             /\ resp' = Redirect(get_absolute_url(kind, new_obj))
        ELSE /\ resp' = Render(Template(r.view), {}, BoundForm(store, kind, r.data, {}))
             /\ UNCHANGED <<store, nextId>>

ObjectUpdateMixin_get(r) ==
    LET found == BySlug(store, Model(r.view), r.slug)
    IN  /\ resp' = IF GetRaises(found) THEN ServerError
                   ELSE Render(Template(r.view), found,
                               InstanceForm(CHOOSE e \in found : TRUE))
        /\ UNCHANGED <<store, nextId>>

\* mutant: the form is bound without instance=obj
ObjectUpdateMixin_post_NoInstance(r) ==
    LET kind == Model(r.view)
        found == BySlug(store, kind, r.slug)
        new_obj == SavedEntity(kind, r.data, {}, nextId[kind])
    IN  IF GetRaises(found)
        THEN resp' = ServerError /\ UNCHANGED <<store, nextId>>
        ELSE IF is_valid(store, kind, r.data, {})
        THEN /\ store' = [store EXCEPT ![kind] = @ \cup {new_obj}]
             /\ nextId' = [nextId EXCEPT ![kind] = @ + 1]
             /\ resp' = Redirect(get_absolute_url(kind, new_obj))
        ELSE /\ resp' = Render(Template(r.view), found,
                               BoundForm(store, kind, r.data, {}))
             /\ UNCHANGED <<store, nextId>>

ObjectUpdateMixin_post(r) ==
    LET kind == Model(r.view)
        found == BySlug(store, kind, r.slug)
        new_obj == SavedEntity(kind, r.data, found, nextId[kind])
    IN  IF GetRaises(found)
        THEN resp' = ServerError /\ UNCHANGED <<store, nextId>>
        ELSE IF is_valid(store, kind, r.data, found)
        THEN /\ store' = [store EXCEPT ![kind] = (@ \ found) \cup {new_obj}]
             /\ resp' = Redirect(get_absolute_url(kind, new_obj))
             /\ UNCHANGED nextId
        ELSE /\ resp' = Render(Template(r.view), found,
                               BoundForm(store, kind, r.data, found))
             /\ UNCHANGED <<store, nextId>>

ObjectDeleteMixin_get(r) ==
    LET found == BySlug(store, Model(r.view), r.slug)
    IN  /\ resp' = IF GetRaises(found) THEN ServerError
                   ELSE Render(Template(r.view), found, UnboundForm)
        /\ UNCHANGED <<store, nextId>>

\* mutant: the redirect without obj.delete()
ObjectDeleteMixin_post_NoDelete(r) ==
    LET found == BySlug(store, Model(r.view), r.slug)
    IN  /\ resp' = IF GetRaises(found) THEN ServerError
                   ELSE Redirect(reverse(RedirectUrl(r.view)))
        /\ UNCHANGED <<store, nextId>>

ObjectDeleteMixin_post(r) ==
    LET kind == Model(r.view)
        found == BySlug(store, kind, r.slug)
    IN  IF GetRaises(found)
        THEN resp' = ServerError /\ UNCHANGED <<store, nextId>>
        ELSE /\ store' = [store EXCEPT ![kind] = @ \ found]
             /\ resp' = Redirect(reverse(RedirectUrl(r.view)))
             /\ UNCHANGED nextId

\* history: an entry [kind, slug, restored] for every slug (case folded) that
\* a delete removed; a create that stores the slug again drops the entry, an
\* update that stores it marks the entry restored
Deleted(r) ==
    LET kind == Model(r.view)
        added == {LowerStr(e.slug) : e \in store'[kind] \ store[kind]}
        removed == {LowerStr(e.slug) : e \in store[kind] \ store'[kind]}
    IN  CASE Mixin(r.view) = "ObjectCreateMixin" ->
               {d \in deleted : ~(d.kind = kind /\ d.slug \in added)}
          [] Mixin(r.view) = "ObjectUpdateMixin" ->
               {IF d.kind = kind /\ d.slug \in added
                THEN [d EXCEPT !.restored = TRUE] ELSE d : d \in deleted}
          [] Mixin(r.view) = "ObjectDeleteMixin" ->
               {d \in deleted : ~(d.kind = kind /\ d.slug \in removed)}
               \cup {[kind |-> kind, slug |-> sl, restored |-> FALSE] : sl \in removed}
          [] OTHER -> deleted

\* LoginRequiredMixin.dispatch with raise_exception = True, then
\* View.dispatch: the gate, then the handler
Dispatch(r, Handler) ==
    /\ req' = r
    /\ before' = store
    /\ IF LoginRequired(r.view) /\ ~r.auth
       THEN resp' = PermissionDenied /\ UNCHANGED <<store, nextId>>
       ELSE Handler
    /\ deleted' = Deleted(r)

----------------------------------------------------------------------------
(* The list views of views.py *)

\* Paginator(posts, 10)
PerPage == 10

\* Paginator.num_pages, with no orphans and an empty first page allowed
NumPages(count) ==
    LET hits == IF count > 1 THEN count ELSE 1
    IN  (hits + PerPage - 1) \div PerPage

\* Paginator.get_page: no integer gives page 1, out of range the last page
GetPageNumber(param, count) ==
    IF param.tag # "int" THEN 1
    ELSE IF param.n < 1 THEN NumPages(count)
    ELSE IF param.n > NumPages(count) THEN NumPages(count)
    ELSE param.n

\* Paginator.page(number).object_list
PageItems(list, number) ==
    LET bottom == (number - 1) * PerPage
        top == IF bottom + PerPage >= Len(list) THEN Len(list) ELSE bottom + PerPage
    IN  SubSeq(list, bottom + 1, top)

has_previous(number) == number > 1
has_next(number, count) == number < NumPages(count)

\* '?page={}'.format(n)
PageUrl(n) == <<Pair("page", IntText(n))>>

\* mutant: the filter without the Q on the body
SearchPosts_TitleOnly(st, search_query) ==
    IF search_query # <<>>
    THEN {p \in st["Post"] : IContains(p.title, search_query)}
    ELSE st["Post"]

\* Post.objects.filter(Q(title__icontains=q) | Q(body__icontains=q)) or
\* Post.objects.all()
SearchPosts(st, search_query) ==
    IF search_query # <<>>
    THEN {p \in st["Post"] : IContains(p.title, search_query)
                             \/ IContains(p.body, search_query)}
    ELSE st["Post"]

\* mutant: next_url decided by has_previous, as prev_url is
ListContext_NextByPrevious(search_query, posts, number) ==
    [NoResponse EXCEPT
        !.status = 200,
        !.template = "blog/index.html",
        !.result = posts,
        !.items = PageItems(posts, number),
        !.number = number,
        !.num_pages = NumPages(Len(posts)),
        !.is_paginated = has_previous(number) \/ has_next(number, Len(posts)),
        !.prev_url = IF has_previous(number) THEN PageUrl(number - 1) ELSE <<>>,
        !.next_url = IF has_previous(number) THEN PageUrl(number + 1) ELSE <<>>]

\* mutant: the links keep the search term of the request
ListContext_KeepSearch(search_query, posts, number) ==
    LET kept == IF search_query # <<>> THEN <<Pair("search", search_query)>> ELSE <<>>
    IN  [NoResponse EXCEPT
            !.status = 200,
            !.template = "blog/index.html",
            !.result = posts,
            !.items = PageItems(posts, number),
            !.number = number,
            !.num_pages = NumPages(Len(posts)),
            !.is_paginated = has_previous(number) \/ has_next(number, Len(posts)),
            !.prev_url = IF has_previous(number)
                         THEN kept \o PageUrl(number - 1) ELSE <<>>,
            !.next_url = IF has_next(number, Len(posts))
                         THEN kept \o PageUrl(number + 1) ELSE <<>>]

\* the page, the links and the context handed to blog/index.html
ListContext(search_query, posts, number) ==
    [NoResponse EXCEPT
        !.status = 200,
        !.template = "blog/index.html",
        !.result = posts,
        !.items = PageItems(posts, number),
        !.number = number,
        !.num_pages = NumPages(Len(posts)),
        !.is_paginated = has_previous(number) \/ has_next(number, Len(posts)),
        !.prev_url = IF has_previous(number) THEN PageUrl(number - 1) ELSE <<>>,
        !.next_url = IF has_next(number, Len(posts)) THEN PageUrl(number + 1) ELSE <<>>]

posts_list(r) ==
    LET search_query == QueryGet(r.query, "search", <<>>)
        page_number == QueryGet(r.query, "page", IntText(1))
    IN  \E posts \in {Ordered(SearchPosts(store, search_query))} :
          \E number \in {GetPageNumber(page_number, Len(posts))} :
            /\ req' = r
            /\ before' = store
            /\ resp' = ListContext(search_query, posts, number)
            /\ UNCHANGED <<store, nextId, deleted>>

tags_list(r) ==
    /\ req' = r
    /\ before' = store
    /\ resp' = [NoResponse EXCEPT !.status = 200,
                                  !.template = "blog/tags_list.html",
                                  !.result = Ordered(store["Tag"])]
    /\ UNCHANGED <<store, nextId, deleted>>

----------------------------------------------------------------------------
(* The requests a caller can send *)

\* the largest page number a caller asks for
MaxPageParam == 4

Titles == {<<>>, <<"a">>}
Bodies == {<<>>, <<"B">>}
FormSlugs == {<<>>, <<"a">>, <<"A">>, <<"b">>, <<"B">>, <<"a", " ">>}
UrlSlugs == {<<"a">>, <<"A">>, <<"b">>, <<"B">>}
SearchTerms == {<<>>, <<"b">>, <<"a", "b">>, <<"A", "B">>, <<"B", "a">>, <<"x">>}

SearchParts == {<<>>} \cup {<<Pair("search", t)>> : t \in SearchTerms}
PageParts ==
    {<<>>} \cup {<<Pair("page", IntText(n))>> : n \in 0..MaxPageParam}
           \cup {<<Pair("page", OtherText)>>}

\* what a caller submits; the form of a Tag has no body field
Submissions(view) ==
    {FormData(t, sl, b) : t \in Titles, sl \in FormSlugs,
                          b \in IF Model(view) = "Post" THEN Bodies ELSE {<<>>}}

\* the inserts made so far
Inserted == nextId["Post"] + nextId["Tag"] - 2

ViewsOf(mixin) == {v \in ViewNames : Mixin(v) = mixin}

DetailGet ==
    \E view \in ViewsOf("ObjectDetailMixin"), auth \in BOOLEAN, slug \in UrlSlugs :
        LET r == Request(view, "GET", auth, slug, EmptyData, <<>>)
        IN  Dispatch(r, ObjectDetailMixin_get(r))

CreateGet ==
    \E view \in ViewsOf("ObjectCreateMixin"), auth \in BOOLEAN :
        LET r == Request(view, "GET", auth, <<>>, EmptyData, <<>>)
        IN  Dispatch(r, ObjectCreateMixin_get(r))

CreatePost ==
    \E view \in ViewsOf("ObjectCreateMixin"), auth \in BOOLEAN :
      \E data \in Submissions(view) :
        LET r == Request(view, "POST", auth, <<>>, data, <<>>)
        IN  /\ is_valid(store, Model(view), data, {}) => Inserted < MaxInserts
            /\ Dispatch(r, ObjectCreateMixin_post(r))

UpdateGet ==
    \E view \in ViewsOf("ObjectUpdateMixin"), auth \in BOOLEAN, slug \in UrlSlugs :
        LET r == Request(view, "GET", auth, slug, EmptyData, <<>>)
        IN  Dispatch(r, ObjectUpdateMixin_get(r))

UpdatePost ==
    \E view \in ViewsOf("ObjectUpdateMixin"), auth \in BOOLEAN, slug \in UrlSlugs :
      \E data \in Submissions(view) :
        LET r == Request(view, "POST", auth, slug, data, <<>>)
        IN  Dispatch(r, ObjectUpdateMixin_post(r))

DeleteGet ==
    \E view \in ViewsOf("ObjectDeleteMixin"), auth \in BOOLEAN, slug \in UrlSlugs :
        LET r == Request(view, "GET", auth, slug, EmptyData, <<>>)
        IN  Dispatch(r, ObjectDeleteMixin_get(r))

DeletePost ==
    \E view \in ViewsOf("ObjectDeleteMixin"), auth \in BOOLEAN, slug \in UrlSlugs :
        LET r == Request(view, "POST", auth, slug, EmptyData, <<>>)
        IN  Dispatch(r, ObjectDeleteMixin_post(r))

\* the list views read nothing of the caller: an anonymous one is drawn
PostsList(searchParts, pageParts) ==
    \E sp \in searchParts, pp \in pageParts :
        posts_list(Request("posts_list", "GET", FALSE, <<>>, EmptyData, sp \o pp))

TagsList ==
    tags_list(Request("tags_list", "GET", FALSE, <<>>, EmptyData, <<>>))

\* the caller follows the previous-page or next-page link of the list page
\* it was just served: the link is the whole query of the new request
FollowLink ==
    /\ req.view = "posts_list"
    /\ \E url \in {resp.prev_url, resp.next_url} :
        /\ url # <<>>
        /\ posts_list([Request("posts_list", "GET", req.auth, <<>>, EmptyData, url)
                         EXCEPT !.followed = TRUE,
                                !.linkSearch = QueryGet(req.query, "search", <<>>)])

\* requests are served one at a time, each to completion: no request is
\* in hand
Idle == req.view = "none"

\* the response has been sent: the request and all it held are gone, the
\* store is what remains
Finish ==
    /\ ~Idle
    /\ req' = NoRequest
    /\ resp' = NoResponse
    /\ before' = store
    /\ UNCHANGED <<store, nextId, deleted>>

----------------------------------------------------------------------------
(* The CRUD specification: every view, from the empty store.  With at most *)
(* MaxInserts inserts a list never has a second page, so no link is there  *)
(* to follow; the list specification below covers the links.               *)

Init ==
    /\ store = [k \in Kinds |-> {}]
    /\ nextId = [k \in Kinds |-> 1]
    /\ before = [k \in Kinds |-> {}]
    /\ deleted = {}
    /\ req = NoRequest
    /\ resp = NoResponse

Next ==
    \/ Idle /\ DetailGet
    \/ Idle /\ CreateGet
    \/ Idle /\ CreatePost
    \/ Idle /\ UpdateGet
    \/ Idle /\ UpdatePost
    \/ Idle /\ DeleteGet
    \/ Idle /\ DeletePost
    \/ Idle /\ PostsList(SearchParts, {<<>>})
    \/ Idle /\ TagsList
    \/ Finish

Spec == Init /\ [][Next]_vars

----------------------------------------------------------------------------
(* The list specification: the list view over a store that holds up to     *)
(* MaxPosts Posts, of which the first `hits` contain "ab" in some case in  *)
(* the title or in the body and the others do not.                         *)

\* a slug of its own for every preloaded Post: its number in two digits
Digits == <<"0", "1", "2", "3", "4", "5", "6", "7", "8", "9">>
ListSlug(i) == <<Digits[((i \div 10) % 10) + 1], Digits[(i % 10) + 1]>>

ListPost(i, hits) ==
    IF i > hits THEN Entity(i, ListSlug(i), <<"b", "a">>, <<"b">>)
    ELSE IF i % 3 = 1 THEN Entity(i, ListSlug(i), <<"a", "B">>, <<>>)
    ELSE IF i % 3 = 2 THEN Entity(i, ListSlug(i), <<"b">>, <<"A", "b", "b">>)
    ELSE Entity(i, ListSlug(i), <<"b", "A", "b">>, <<"b", "a", "B">>)

InitList ==
    \E n \in 0..MaxPosts :
      \E hits \in 0..n :
        /\ store = [k \in Kinds |-> IF k = "Post" THEN {ListPost(i, hits) : i \in 1..n}
                                    ELSE {}]
        /\ nextId = [k \in Kinds |-> IF k = "Post" THEN n + 1 ELSE 1]
        /\ before = store
        /\ deleted = {}
        /\ req = NoRequest
        /\ resp = NoResponse

NextList ==
    \/ Idle /\ PostsList(SearchParts, PageParts)
    \/ FollowLink
    \/ Finish

SpecList == InitList /\ [][NextList]_vars

----------------------------------------------------------------------------
(* Properties.  Each is stated of the last request served: `before` is the *)
(* store the request found, `store` the store it left.                     *)

IsView(mixins) == req.view \in ViewNames /\ Mixin(req.view) \in mixins

\* the stored entities of a kind whose slug equals sl after case folding
Matching(st, kind, sl) == {e \in st[kind] : LowerStr(e.slug) = LowerStr(sl)}

Elements(seq) == {seq[i] : i \in 1..Len(seq)}

\* C1: a create, update or delete request (GET or POST, Post or Tag) of a
\* caller without an authenticated session is answered 403 and leaves the
\* store as it found it.
C1_GateRejectsAnonymous ==
    (IsView({"ObjectCreateMixin", "ObjectUpdateMixin", "ObjectDeleteMixin"})
        /\ ~req.auth)
    => (resp.status = 403 /\ store = before)

\* an anonymous delete POST for a stored Tag was rejected
C1_Witness ==
    /\ req.view = "TagDelete" /\ req.method = "POST" /\ ~req.auth
    /\ Matching(before, "Tag", req.slug) # {}
    /\ resp.status = 403
    /\ store["Tag"] # {}

\* C2: a detail, update or delete request that passes the gate and whose
\* slug matches no stored entity ends in 404 and leaves the store unchanged.
C2_MissingSlugIsNotFound ==
    (IsView({"ObjectDetailMixin", "ObjectUpdateMixin", "ObjectDeleteMixin"})
        /\ (LoginRequired(req.view) => req.auth)
        /\ Matching(before, Model(req.view), req.slug) = {})
    => (resp.status = 404 /\ store = before)

\* C3: a detail request whose slug matches a stored entity of the kind,
\* case folded, is answered with exactly that entity and changes nothing.
C3_DetailReturnsTheEntity ==
    (IsView({"ObjectDetailMixin"})
        /\ Matching(before, Model(req.view), req.slug) # {})
    => /\ resp.status = 200
       /\ \E e \in before[Model(req.view)] :
            LowerStr(e.slug) = LowerStr(req.slug) /\ resp.obj = {e}
       /\ store = before

\* a detail request found an entity whose slug differs from the requested
\* one in case only, while another entity of the kind was stored
C3_Witness ==
    /\ IsView({"ObjectDetailMixin"})
    /\ resp.status = 200
    /\ \E e \in resp.obj : e.slug # req.slug
    /\ Cardinality(store[Model(req.view)]) = 2

C5_CreateIffValid ==
    (IsView({"ObjectCreateMixin"}) /\ req.method = "POST" /\ req.auth)
    => LET kind == Model(req.view)
           d == CleanedData(kind, req.data)
       IN  IF is_valid(before, kind, req.data, {})
           THEN /\ \E e \in store[kind] :
                     /\ \A o \in before[kind] : o.id # e.id
                     /\ store[kind] = before[kind] \cup {e}
                     /\ e.title = d.title /\ e.slug = d.slug /\ e.body = d.body
                     /\ resp.location = [page |-> "detail", kind |-> kind, slug |-> e.slug]
                /\ Cardinality(store[kind]) = Cardinality(before[kind]) + 1
                /\ \A k \in Kinds \ {kind} : store[k] = before[k]
                /\ resp.status = 302
           ELSE /\ store = before
                /\ resp.status = 200
                /\ resp.template = Template(req.view)
                /\ resp.form.bound
                /\ resp.form.data = req.data
                /\ resp.form.errors # {}

\* a second Post was created beside a stored one
C5_Witness ==
    /\ req.view = "PostCreate" /\ req.method = "POST" /\ req.auth
    /\ resp.status = 302
    /\ Cardinality(before["Post"]) = 1
    /\ Cardinality(store["Post"]) = 2

\* C6: an update submission of an authenticated caller for a slug that
\* matches a stored entity changes no count and no other entity; valid, the
\* entity keeps its primary key, takes the submitted values and the
\* response redirects to its detail page; invalid, the store is unchanged
\* and the form comes back with its errors.
C6_UpdateInPlace ==
    (IsView({"ObjectUpdateMixin"}) /\ req.method = "POST" /\ req.auth
        /\ Matching(before, Model(req.view), req.slug) # {})
    => LET kind == Model(req.view)
           d == CleanedData(kind, req.data)
       IN  \E obj \in Matching(before, kind, req.slug) :
             /\ \A k \in Kinds : Cardinality(store[k]) = Cardinality(before[k])
             /\ \A k \in Kinds \ {kind} : store[k] = before[k]
             /\ before[kind] \ {obj} \subseteq store[kind]
             /\ IF is_valid(before, kind, req.data, {obj})
                THEN /\ \E e \in store[kind] :
                          /\ e.id = obj.id
                          /\ e.title = d.title /\ e.slug = d.slug /\ e.body = d.body
                          /\ resp.location =
                               [page |-> "detail", kind |-> kind, slug |-> e.slug]
                     /\ resp.status = 302
                ELSE /\ store = before
                     /\ resp.status = 200
                     /\ resp.form.bound
                     /\ resp.form.data = req.data
                     /\ resp.form.errors # {}

\* a Post was given another slug and another body while a second Post was
\* stored
C6_Witness ==
    /\ req.view = "PostUpdate" /\ req.method = "POST" /\ req.auth
    /\ resp.status = 302
    /\ Cardinality(store["Post"]) = 2
    /\ \E obj \in before["Post"] : \E e \in store["Post"] :
          e.id = obj.id /\ e.slug # obj.slug /\ e.body # obj.body

\* what C7 says of one delete request and of a detail request for a slug
\* that matches nothing
DeleteRequestEffect ==
    /\ (IsView({"ObjectDeleteMixin"}) /\ req.method = "GET") => store = before
    /\ (IsView({"ObjectDeleteMixin"}) /\ req.method = "POST" /\ req.auth
          /\ Matching(before, Model(req.view), req.slug) # {})
       => LET kind == Model(req.view)
          IN  /\ \E obj \in Matching(before, kind, req.slug) :
                    store[kind] = before[kind] \ {obj}
              /\ Cardinality(store[kind]) = Cardinality(before[kind]) - 1
              /\ \A k \in Kinds \ {kind} : store[k] = before[k]
              /\ resp.status = 302
              /\ resp.location = [page |-> "list", kind |-> kind, slug |-> <<>>]
              /\ Matching(store, kind, req.slug) = {}
    /\ (IsView({"ObjectDetailMixin"})
          /\ Matching(before, Model(req.view), req.slug) = {})
       => resp.status = 404

----------------------------------------------------------------------------
(* Properties of the list view, under the list specification *)

\* the search term of the last request: empty when the parameter is absent
SearchTerm == QueryGet(req.query, "search", <<>>)

\* C8: the result set of the list view, before pagination, is the set of
\* Posts whose title or body contains the term as a case-insensitive
\* substring when the term is not empty, so it is empty when no Post
\* contains the term, and is the set of all Posts when the term is absent or
\* empty; each Post is listed once and the store is unchanged.
C8_SearchResultSet ==
    req.view = "posts_list"
    => /\ Elements(resp.result) =
            IF SearchTerm # <<>>
            THEN {p \in before["Post"] :
                     IContains(p.title, SearchTerm) \/ IContains(p.body, SearchTerm)}
            ELSE before["Post"]
       /\ Len(resp.result) = Cardinality(Elements(resp.result))
       /\ store = before

\* a search listed some Posts and not all, one of them for its title alone
\* and one for its body alone, the term in another case than the text
C8_Witness ==
    /\ req.view = "posts_list"
    /\ SearchTerm = <<"A", "B">>
    /\ resp.result # <<>>
    /\ Len(resp.result) < Cardinality(store["Post"])
    /\ \E p, q \in Elements(resp.result) :
          /\ ~IContains(p.body, SearchTerm) /\ <<"A", "B">> # p.title
          /\ ~IContains(q.title, SearchTerm)

RECURSIVE PagesUpTo(_, _)
\* pages 1..k of a list, one after the other
PagesUpTo(list, k) ==
    IF k = 0 THEN <<>> ELSE PagesUpTo(list, k - 1) \o PageItems(list, k)

\* C9: a result set of N Posts has max(1, ceil(N/10)) pages of at most 10
\* Posts that together hold every Post once; page k has a next link, to
\* page k+1, exactly when k is not the last page and a previous link, to
\* page k-1, exactly when k > 1; 25 Posts give 3 pages.
C9_Pagination ==
    req.view = "posts_list"
    => LET N == Len(resp.result)
           P == resp.num_pages
           k == resp.number
       IN  /\ P >= 1 /\ P * 10 >= N /\ (P > 1 => (P - 1) * 10 < N)
           /\ \A j \in 1..P : Len(PageItems(resp.result, j)) <= 10
           /\ PagesUpTo(resp.result, P) = resp.result
           /\ k \in 1..P
           /\ resp.items = PageItems(resp.result, k)
           /\ (resp.next_url # <<>>) <=> (k < P)
           /\ (resp.prev_url # <<>>) <=> (k > 1)
           /\ k < P => /\ Len(resp.next_url) = 1
                       /\ resp.next_url[1].key = "page"
                       /\ resp.next_url[1].value = IntText(k + 1)
           /\ k > 1 => /\ Len(resp.prev_url) = 1
                       /\ resp.prev_url[1].key = "page"
                       /\ resp.prev_url[1].value = IntText(k - 1)
           /\ N = 25 => P = 3

\* page 2 of 25 Posts was served, with both links
C9_Witness ==
    /\ req.view = "posts_list"
    /\ Len(resp.result) = 25
    /\ resp.number = 2 /\ resp.num_pages = 3
    /\ resp.next_url # <<>> /\ resp.prev_url # <<>>
    /\ Len(resp.items) = 10

\* C10: the links of the list page carry a page number only, so the request
\* made by following a link has no search term and is answered from all
\* Posts.
C10_LinksDropSearch ==
    req.view = "posts_list"
    => /\ \A url \in {resp.prev_url, resp.next_url} :
            \A i \in 1..Len(url) : url[i].key = "page"
       /\ req.followed
          => /\ ~HasKey(req.query, "search")
             /\ Elements(resp.result) = before["Post"]

\* the next link of a search with more than one page of results, fewer
\* than all Posts, was followed and all Posts were listed
C10_Witness ==
    /\ req.view = "posts_list" /\ req.followed
    /\ req.linkSearch # <<>>
    /\ resp.number = 2
    /\ Cardinality(SearchPosts(store, req.linkSearch)) > 10
    /\ Cardinality(SearchPosts(store, req.linkSearch)) < Cardinality(store["Post"])
    /\ Len(resp.result) = Cardinality(store["Post"])

====
